---- MODULE Spec2Model ----
(***************************************************************************)
(* FindMePls: the fuzzy full-text search index (IndexEngine,               *)
(* src/src/document_search.rs) and the request handlers that serialise     *)
(* access to the index with a reader/writer lock and pair it with the      *)
(* SQLite store (BusinessRules, src/src/business.rs).                      *)
(*                                                                         *)
(* Text is a sequence of one-character strings; " " is the delimiter.      *)
(*                                                                         *)
(* The index behind BusinessRules' lock is a library index whose code is   *)
(* not part of the repository; it is modelled as the IndexEngine over      *)
(* ItemSearch documents: field "title" is the name, field "description"    *)
(* the optional description. The scorer the engine delegates to (postings  *)
(* per token, field and key; a query returns the keys that share a token   *)
(* with it) and the edit distance are libraries too: they are modelled     *)
(* from their documented behaviour. An index mutation is not atomic: it    *)
(* proceeds field by field. A handler is a sequence of steps, one per      *)
(* await.                                                                  *)
(*                                                                         *)
(* Five specifications: SpecEngine is any sequential use of one            *)
(* IndexEngine; SpecFuzzy is the same over documents and misspelled        *)
(* queries with longer words; SpecFunctions applies the tokenizer, the     *)
(* budget rule, the query expansion and the asset serialization each to   *)
(* one input; Spec is NumProcs handlers serving add_item, delete_item and  *)
(* find_items requests concurrently; SpecLive is the same handlers over    *)
(* fewer requests under a fair scheduler.                                  *)
(***************************************************************************)
EXTENDS Integers, Sequences, FiniteSets, TLC

(* ------------------------------ bounds --------------------------------- *)

\* Number of request handlers that may run concurrently.
NumProcs == 2

\* Number of rows the items table may ever be given (AUTOINCREMENT ids 1..MaxId).
MaxId == 2

\* Longest word whose edit-distance budget is looked up.
MaxWordLength == 12

\* Longest text handed to the tokenizer on its own.
MaxTextLen == 4

Procs == 1..NumProcs

Ids == 1..MaxId

(* ------------------------------ data ----------------------------------- *)

None == [some |-> FALSE, val |-> <<>>]

Some(v) == [some |-> TRUE, val |-> v]

\* ItemSearch values handed to the handlers (name, optional description).
Items ==
    { [name |-> <<"a">>, description |-> None],
      [name |-> <<"b">>, description |-> Some(<<"a", " ", "b">>)],
      [name |-> <<"b", " ", "a">>, description |-> Some(<<>>)] }

\* Query texts handed to the handlers.
Queries == { <<>>, <<"a">>, <<"c", " ", "b">> }

Fields == <<"title", "description">>

\* Boosts per field, in field order, supplied at query time.
BoostSets == { <<1, 1>>, <<2, 1>> }

Range(s) == { s[i] : i \in 1..Len(s) }

RECURSIVE Flatten(_)
Flatten(ss) == IF ss = <<>> THEN <<>> ELSE Head(ss) \o Flatten(Tail(ss))

Count(t, toks) == Cardinality({ i \in 1..Len(toks) : toks[i] = t })

RECURSIVE SumOver(_, _)
SumOver(f, S) ==
    IF S = {} THEN 0
    ELSE LET x == CHOOSE y \in S : TRUE IN f[x] + SumOver(f, S \ {x})

\* All orders in which a set can be iterated.
Orders(S) ==
    { o \in [1..Cardinality(S) -> S] : \A i, j \in 1..Cardinality(S) : o[i] = o[j] => i = j }

(* ------------------------------ types.rs -------------------------------- *)

RECURSIVE Split(_, _, _)
Split(s, i, cur) ==
    IF i > Len(s) THEN <<cur>>
    ELSE IF s[i] = " " THEN <<cur>> \o Split(s, i + 1, <<>>)
    ELSE Split(s, i + 1, Append(cur, s[i]))

\* Variant of tokenizer that drops the empty tokens (split_whitespace).
tokenizer_split_whitespace(s) == SelectSeq(Split(s, 1, <<>>), LAMBDA t : t # <<>>)

\* s.split(' '): every space ends a token; the text after the last space
\* (possibly empty) is the last token.
tokenizer(s) == Split(s, 1, <<>>)

title_extract(d) == <<d.name>>

description_extract(d) == IF d.description.some THEN <<d.description.val>> ELSE <<>>

\* field_accessor of the engine, in field order.
field_accessor(i, d) == IF i = 1 THEN title_extract(d) ELSE description_extract(d)

(* Item::as_bytes and Item::change_from_bytes. A byte is a number 0..255.    *)
(* base64 is the standard alphabet with padding; decoding accepts only the  *)
(* canonical form (length a multiple of 4, padding where it belongs, unused *)
(* trailing bits zero).                                                     *)

\* usize::BITS / 8: the bytes of a length prefix.
UsizeBytes == 8

Base64Chars ==
    <<"A", "B", "C", "D", "E", "F", "G", "H", "I", "J", "K", "L", "M", "N", "O", "P",
      "Q", "R", "S", "T", "U", "V", "W", "X", "Y", "Z", "a", "b", "c", "d", "e", "f",
      "g", "h", "i", "j", "k", "l", "m", "n", "o", "p", "q", "r", "s", "t", "u", "v",
      "w", "x", "y", "z", "0", "1", "2", "3", "4", "5", "6", "7", "8", "9", "+", "/">>

Ok(v) == [ok |-> TRUE, val |-> v]

Err == [ok |-> FALSE, val |-> <<>>]

Sextet(c) == (CHOOSE i \in 1..64 : Base64Chars[i] = c) - 1

\* The bytes a run of 6-bit values stands for: 4 values give 3 bytes, a last
\* group of 3 gives 2 bytes and of 2 gives 1 byte.
RECURSIVE SextetsToBytes(_)
SextetsToBytes(x) ==
    IF Len(x) < 2 THEN <<>>
    ELSE IF Len(x) = 2 THEN <<x[1] * 4 + x[2] \div 16>>
    ELSE IF Len(x) = 3 THEN <<x[1] * 4 + x[2] \div 16, (x[2] % 16) * 16 + x[3] \div 4>>
    ELSE <<x[1] * 4 + x[2] \div 16, (x[2] % 16) * 16 + x[3] \div 4, (x[3] % 4) * 64 + x[4]>>
         \o SextetsToBytes(SubSeq(x, 5, Len(x)))

\* base64::engine::general_purpose::STANDARD.decode
decode(s) ==
    LET n == Len(s)
        pads == IF n > 0 /\ s[n] = "=" THEN (IF n > 1 /\ s[n - 1] = "=" THEN 2 ELSE 1) ELSE 0
        body == SubSeq(s, 1, n - pads)
        x == [i \in 1..Len(body) |-> Sextet(body[i])]
    IN  IF n % 4 # 0 THEN Err
        ELSE IF \E i \in 1..Len(body) : body[i] \notin Range(Base64Chars) THEN Err
        ELSE IF pads = 2 /\ x[Len(x)] % 16 # 0 THEN Err
        ELSE IF pads = 1 /\ x[Len(x)] % 4 # 0 THEN Err
        ELSE Ok(SextetsToBytes(x))

\* base64::engine::general_purpose::STANDARD.encode
RECURSIVE encode(_)
encode(b) ==
    IF b = <<>> THEN <<>>
    ELSE IF Len(b) = 1 THEN
        <<Base64Chars[b[1] \div 4 + 1], Base64Chars[(b[1] % 4) * 16 + 1], "=", "=">>
    ELSE IF Len(b) = 2 THEN
        <<Base64Chars[b[1] \div 4 + 1], Base64Chars[(b[1] % 4) * 16 + b[2] \div 16 + 1],
          Base64Chars[(b[2] % 16) * 4 + 1], "=">>
    ELSE
        <<Base64Chars[b[1] \div 4 + 1], Base64Chars[(b[1] % 4) * 16 + b[2] \div 16 + 1],
          Base64Chars[(b[2] % 16) * 4 + b[3] \div 64 + 1], Base64Chars[(b[3] % 64) + 1]>>
        \o encode(SubSeq(b, 4, Len(b)))

\* usize::to_le_bytes: the least significant byte first.
RECURSIVE le_bytes(_, _)
le_bytes(n, count) ==
    IF count = 0 THEN <<>> ELSE <<n % 256>> \o le_bytes(n \div 256, count - 1)

to_le_bytes(n) == le_bytes(n, UsizeBytes)

\* usize::from_le_bytes. A value of 2^24 or more, larger than every slice
\* there is, is given as 2^24.
from_le_bytes(b) ==
    IF \E i \in 4..Len(b) : b[i] # 0 THEN 16777216
    ELSE b[1] + 256 * b[2] + 65536 * b[3]

\* The bytes of one asset: the decoded field, or nothing when it is absent.
asset_data(field) == IF field.some THEN decode(field.val) ELSE Ok(<<>>)

\* Variant of as_bytes that writes no length before the image data.
as_bytes_one_length(item) ==
    LET thumbnail_data == asset_data(item.thumbnail)
        image_data == asset_data(item.fullsize)
    IN  IF ~thumbnail_data.ok \/ ~image_data.ok THEN Err
        ELSE Ok(to_le_bytes(Len(thumbnail_data.val)) \o thumbnail_data.val \o image_data.val)

\* Item::as_bytes: length and bytes of the thumbnail, length and bytes of the
\* image; an error when a field does not decode.
as_bytes(item) ==
    LET thumbnail_data == asset_data(item.thumbnail)
        image_data == asset_data(item.fullsize)
    IN  IF ~thumbnail_data.ok \/ ~image_data.ok THEN Err
        ELSE Ok(to_le_bytes(Len(thumbnail_data.val)) \o thumbnail_data.val
                \o to_le_bytes(Len(image_data.val)) \o image_data.val)

\* One length-prefixed block read off the front of bytes: a panic when the
\* slice is shorter than the prefix or than the size the prefix gives.
read_block(bytes) ==
    IF Len(bytes) < UsizeBytes THEN [panic |-> TRUE, data |-> <<>>, rest |-> <<>>]
    ELSE LET size == from_le_bytes(SubSeq(bytes, 1, UsizeBytes))
             rest == SubSeq(bytes, UsizeBytes + 1, Len(bytes))
         IN  IF size > Len(rest) THEN [panic |-> TRUE, data |-> <<>>, rest |-> <<>>]
             ELSE [panic |-> FALSE, data |-> SubSeq(rest, 1, size),
                   rest |-> SubSeq(rest, size + 1, Len(rest))]

\* Item::change_from_bytes: the item as it is left, the bytes left over after
\* the two blocks, and whether the call panicked (a slice out of range or the
\* final assert).
change_from_bytes(item, bytes) ==
    LET first == read_block(bytes)
        second == read_block(first.rest)
    IN  IF first.panic THEN [panic |-> TRUE, item |-> item, rest |-> <<>>]
        ELSE IF second.panic
        THEN [panic |-> TRUE, item |-> [item EXCEPT !.thumbnail = Some(encode(first.data))],
              rest |-> first.rest]
        ELSE [panic |-> second.rest # <<>>,
              item |-> [item EXCEPT !.thumbnail = Some(encode(first.data)),
                                    !.fullsize = Some(encode(second.data))],
              rest |-> second.rest]

(* --------------------------- the scorer --------------------------------- *)

\* Tokens of one field of a document: every extracted string tokenized.
FieldTokens(i, d) ==
    Flatten([j \in 1..Len(field_accessor(i, d)) |-> tokenizer(field_accessor(i, d)[j])])

\* Postings of one field of document key: (token, field, key, term frequency).
FieldPostings(key, i, d) ==
    { <<t, Fields[i], key, Count(t, FieldTokens(i, d))>> : t \in Range(FieldTokens(i, d)) }

\* Scorer insert, one field of the document at a time.
Bm25AddField(post, key, i, d) == post \cup FieldPostings(key, i, d)

\* Scorer remove, one field at a time: deletes the field's postings that reference key.
Bm25RemoveField(post, key, i) == { x \in post : ~(x[3] = key /\ x[2] = Fields[i]) }

PostingsOf(post, key) == { x \in post : x[3] = key }

KeysOf(post) == { x[3] : x \in post }

\* Weighted sum over the query tokens and the fields of the term frequencies.
Score(post, key, toks, boost) ==
    LET hits == { h \in (1..Len(toks)) \X PostingsOf(post, key) : h[2][1] = toks[h[1]] }
        FieldNo(f) == CHOOSE i \in 1..Len(Fields) : Fields[i] = f
        w == [h \in hits |-> boost[FieldNo(h[2][2])] * h[2][4]]
    IN  SumOver(w, hits)

\* Scorer query: the documents sharing at least one token with the query.
Bm25Query(post, text, boost) ==
    LET toks == tokenizer(text)
    IN  { [key |-> k, score |-> Score(post, k, toks, boost)] :
            k \in KeysOf({ y \in post : y[1] \in Range(toks) }) }

Min2(a, b) == IF a < b THEN a ELSE b

\* Minimum number of single-character insertions, deletions or substitutions.
RECURSIVE levenshtein(_, _)
levenshtein(a, b) ==
    IF a = <<>> THEN Len(b)
    ELSE IF b = <<>> THEN Len(a)
    ELSE Min2(Min2(levenshtein(Tail(a), b) + 1, levenshtein(a, Tail(b)) + 1),
              levenshtein(Tail(a), Tail(b)) + (IF Head(a) = Head(b) THEN 0 ELSE 1))

(* ------------------------- document_search.rs --------------------------- *)

LimitNone == [kind |-> "None", n |-> 0]

WordLengthBased == [kind |-> "WordLengthBased", n |-> 0]

Limit(n) == [kind |-> "Limit", n |-> n]

\* Autocorrect policies handed to query_with_autocorrect.
LimitOptions == { LimitNone, WordLengthBased, Limit(1) }

\* Variant of levenshtein_distance_rule whose steps begin one length early.
levenshtein_distance_rule_exclusive(word_length) ==
    IF word_length < 3 THEN 0
    ELSE IF word_length < 5 THEN 1
    ELSE IF word_length < 7 THEN 2
    ELSE IF word_length < 10 THEN 3
    ELSE 4

levenshtein_distance_rule(word_length) ==
    IF word_length <= 3 THEN 0
    ELSE IF word_length <= 5 THEN 1
    ELSE IF word_length <= 7 THEN 2
    ELSE IF word_length <= 10 THEN 3
    ELSE 4

\* Variant of into_option in which no limit means no expansion.
into_option_none_is_zero(limit, s) ==
    CASE limit.kind = "None" -> Some(0)
      [] limit.kind = "WordLengthBased" -> Some(levenshtein_distance_rule(Len(s)))
      [] limit.kind = "Limit" -> Some(limit.n)

into_option(limit, s) ==
    CASE limit.kind = "None" -> None
      [] limit.kind = "WordLengthBased" -> Some(levenshtein_distance_rule(Len(s)))
      [] limit.kind = "Limit" -> Some(limit.n)

\* IndexEngine::new: no postings, empty vocabulary.
NewEngine == [bm25_search |-> {}, word_occurences |-> {}]

extract_words(d) ==
    Flatten([i \in 1..Len(Fields) |-> FieldTokens(i, d)])

\* Variant of index_words that collects the words of the first field only.
index_words_title_only(e, d) ==
    [e EXCEPT !.word_occurences = @ \cup Range(FieldTokens(1, d))]

\* index, first part: every word of the document joins the vocabulary.
index_words(e, d) ==
    [e EXCEPT !.word_occurences = @ \cup Range(extract_words(d))]

\* index, second part: bm25_search.add_document, field by field.
index_field(e, key, i, d) ==
    [e EXCEPT !.bm25_search = Bm25AddField(@, key, i, d)]

\* Variant of index_fields that adds the postings of the first field only.
index_fields_first_only(e, key, i, d) == index_field(e, key, 1, d)

RECURSIVE index_fields(_, _, _, _)
index_fields(e, key, i, d) ==
    IF i > Len(Fields) THEN e ELSE index_fields(index_field(e, key, i, d), key, i + 1, d)

index(e, key, d) == index_fields(index_words(e, d), key, 1, d)

\* Variant of find_best_matching_autocorrect_token that keeps a word only
\* when it is nearer than the limit.
find_best_matching_autocorrect_token_below(order, token, limit) ==
    SelectSeq(order, LAMBDA k : IF limit.some THEN levenshtein(token, k) < limit.val ELSE TRUE)

\* Variant of find_best_matching_autocorrect_token that stops at the first
\* word within the limit.
find_best_matching_autocorrect_token_first(order, token, limit) ==
    LET hits == SelectSeq(order, LAMBDA k :
                    IF limit.some THEN levenshtein(token, k) <= limit.val ELSE TRUE)
    IN  IF hits = <<>> THEN <<>> ELSE <<Head(hits)>>

\* order: the order in which the HashSet word_occurences is iterated.
find_best_matching_autocorrect_token(order, token, limit) ==
    SelectSeq(order, LAMBDA k : IF limit.some THEN levenshtein(token, k) <= limit.val ELSE TRUE)

\* Variant of autocorrect_tokens that does not push the query token itself.
RECURSIVE autocorrect_tokens_matches_only(_, _, _)
autocorrect_tokens_matches_only(order, tokens, limit) ==
    IF tokens = <<>> THEN <<>>
    ELSE find_best_matching_autocorrect_token(order, Head(tokens), into_option(limit, Head(tokens)))
         \o autocorrect_tokens_matches_only(order, Tail(tokens), limit)

\* The loop of find_best_matching_autocorrect: for each token of the query,
\* its matches in the vocabulary and then the token itself.
RECURSIVE autocorrect_tokens(_, _, _)
autocorrect_tokens(order, tokens, limit) ==
    IF tokens = <<>> THEN <<>>
    ELSE find_best_matching_autocorrect_token(order, Head(tokens), into_option(limit, Head(tokens)))
         \o <<Head(tokens)>> \o autocorrect_tokens(order, Tail(tokens), limit)

find_best_matching_autocorrect(order, query_text, limit) ==
    autocorrect_tokens(order, tokenizer(query_text), limit)

\* Variant of join that puts nothing between the tokens.
join_without_separator(tokens) == Flatten(tokens)

\* [..].join(" ")
RECURSIVE join(_)
join(tokens) ==
    IF tokens = <<>> THEN <<>>
    ELSE IF Len(tokens) = 1 THEN Head(tokens)
    ELSE Head(tokens) \o <<" ">> \o join(Tail(tokens))

query(e, query_text, fields_boost) == Bm25Query(e.bm25_search, query_text, fields_boost)

\* The text query_with_autocorrect hands to query.
expanded_query(order, query_text, limit) ==
    join(find_best_matching_autocorrect(order, query_text, limit))

\* Variant of query_with_autocorrect that queries with the text as given.
query_with_autocorrect_as_given(e, order, query_text, fields_boost, limit) ==
    query(e, query_text, fields_boost)

query_with_autocorrect(e, order, query_text, fields_boost, limit) ==
    query(e, expanded_query(order, query_text, limit), fields_boost)

\* remove_document, field by field.
remove_field(e, key, i) ==
    [e EXCEPT !.bm25_search = Bm25RemoveField(@, key, i)]

RECURSIVE remove_fields(_, _, _)
remove_fields(e, key, i) ==
    IF i > Len(Fields) THEN e ELSE remove_fields(remove_field(e, key, i), key, i + 1)

\* Variant of remove_document that stops after the first field.
remove_document_first_field(e, key) == remove_field(e, key, 1)

\* Variant of remove_document that also clears the vocabulary.
remove_document_clear_words(e, key) ==
    [remove_fields(e, key, 1) EXCEPT !.word_occurences = {}]

remove_document(e, key) == remove_fields(e, key, 1)

(* ------------------------------ business.rs ----------------------------- *)

\* Which side of the index RwLock each handler takes.
find_items_lock == "read"

\* Variant of add_item that takes the read side of the lock.
add_item_lock_read == "read"

add_item_lock == "write"

\* Variant of delete_item that takes the read side of the lock.
delete_item_lock_read == "read"

delete_item_lock == "write"

\* tokio RwLock: a read guard is granted while no write guard is held, a write
\* guard while no guard at all is held.
CanAcquire(mode, rs, ws) ==
    IF mode = "read" THEN ws = {} ELSE rs = {} /\ ws = {}

\* Boosts of the query find_items makes: both fields weigh the same.
FindBoost == <<1, 1>>

\* Vec::sort_by on the score, ascending and stable: x goes after every element
\* whose score is not larger.
RECURSIVE InsertByScore(_, _)
InsertByScore(x, sorted) ==
    IF sorted = <<>> THEN <<x>>
    ELSE IF x.score < Head(sorted).score THEN <<x>> \o sorted
    ELSE <<Head(sorted)>> \o InsertByScore(x, Tail(sorted))

RECURSIVE SortByScore(_)
SortByScore(xs) ==
    IF xs = <<>> THEN <<>>
    ELSE InsertByScore(xs[Len(xs)], SortByScore(SubSeq(xs, 1, Len(xs) - 1)))

\* Variant of Reverse that leaves the list in its order.
Reverse_left_out(xs) == xs

\* .rev()
Reverse(xs) == [i \in 1..Len(xs) |-> xs[Len(xs) + 1 - i]]

\* Variant of find_items_select that binds only the first id of the result.
find_items_select_first_id(result, row_ids) ==
    { id \in row_ids : result # <<>> /\ id = result[1].key }

\* SELECT * FROM items WHERE id IN (ids of the result): the ids of the rows
\* that are in the store.
find_items_select(result, row_ids) ==
    row_ids \cap { result[i].key : i \in 1..Len(result) }

\* The score of the first query result whose document id is id, if any.
find_score_for_item(id, query_res) ==
    LET hit == { i \in 1..Len(query_res) : query_res[i].key = id }
    IN  IF hit = {} THEN None
        ELSE Some(query_res[CHOOSE i \in hit : \A j \in hit : i <= j].score)

\* find_items after the fetch: score every fetched row, drop the rows without
\* a score, sort by score ascending, return the rows in reverse.
find_items_output(result, fetched) ==
    LET scored == [i \in 1..Len(fetched) |->
                      [key |-> fetched[i], opt |-> find_score_for_item(fetched[i], result)]]
        kept == SelectSeq(scored, LAMBDA x : x.opt.some)
        items == [i \in 1..Len(kept) |-> [key |-> kept[i].key, score |-> kept[i].opt.val]]
    IN  CHOOSE output \in { Reverse([i \in 1..Len(sorted) |-> sorted[i].key]) :
                              sorted \in { SortByScore(items) } } : TRUE

\* Variant of find_items_return that reports an empty record list as not found.
find_items_return_empty_is_not_found(output) ==
    IF output = <<>> THEN "NoMatches" ELSE "Ok"

\* find_items' last line: Ok(records), whatever the list holds.
find_items_return(output) == "Ok"

(* ------------------------------ state ----------------------------------- *)

VARIABLES
    engine,        \* the IndexEngine: bm25_search (postings) and word_occurences
    last,          \* the latest direct call made on the engine and what it returned
    ever_docs,     \* history: every document ever passed to index
    ever_keys,     \* history: every key ever passed to index
    removed_keys,  \* history: keys removed and not passed to index since
    live,          \* history: the document each key was last indexed with, if not removed since
    call,          \* the latest application of a function on its own: name, arguments, value
    rows,          \* the committed rows of the items table: (id, item) pairs
    seq,           \* the committed AUTOINCREMENT sequence of the items table
    db_writer,     \* the handler whose transaction holds SQLite's write lock, or 0
    readers,       \* handlers holding a read guard of the index lock
    writers,       \* handlers holding a write guard of the index lock
    queue,         \* handlers waiting for a guard of the index lock, first come first
    proc,          \* per handler: where it is in its call and its locals
    failed         \* history: some add_item or delete_item call returned an error

engine_vars == <<engine, last, ever_docs, ever_keys, removed_keys, live>>

history_vars == <<last, ever_docs, ever_keys, removed_keys, live>>

store_vars == <<rows, seq, db_writer>>

lock_vars == <<readers, writers, queue>>

business_vars == <<rows, seq, db_writer, readers, writers, queue, proc, failed>>

vars == <<engine, last, ever_docs, ever_keys, removed_keys, live, call,
          rows, seq, db_writer, readers, writers, queue, proc, failed>>

NoCall ==
    [op |-> "none", key |-> 0, text |-> <<>>, boost |-> <<>>, limit |-> LimitNone,
     result |-> {}]

NoItem == [name |-> <<>>, description |-> None]

NoApply == [fn |-> "none", arg |-> <<>>, ret |-> <<>>, done |-> FALSE]

\* A handler that is not serving a request.
Idle ==
    [pc |-> "idle", op |-> "none", item |-> NoItem, id |-> 0, text |-> <<>>,
     tx |-> "none", field |-> 0, result |-> <<>>, output |-> <<>>,
     outcome |-> "none", partial |-> {}]

Init ==
    /\ engine = NewEngine
    /\ last = NoCall
    /\ ever_docs = {}
    /\ ever_keys = {}
    /\ removed_keys = {}
    /\ live = [k \in Ids |-> NoItem]
    /\ call = NoApply
    /\ rows = {}
    /\ seq = 0
    /\ db_writer = 0
    /\ readers = {}
    /\ writers = {}
    /\ queue = <<>>
    /\ proc = [p \in Procs |-> Idle]
    /\ failed = FALSE

(* ------------------- sequential use of the IndexEngine ------------------ *)

\* The caller never inserts a key that is live (caller obligation of the engine).
EngineIndexOf(docs) ==
    \E key \in Ids, d \in docs :
        /\ key \notin KeysOf(engine.bm25_search)
        /\ engine' = index(engine, key, d)
        /\ last' = [NoCall EXCEPT !.op = "index", !.key = key]
        /\ ever_docs' = ever_docs \cup {d}
        /\ ever_keys' = ever_keys \cup {key}
        /\ removed_keys' = removed_keys \ {key}
        /\ live' = [live EXCEPT ![key] = d]
        /\ UNCHANGED <<business_vars, call>>

EngineIndex == EngineIndexOf(Items)

EngineRemove ==
    \E key \in Ids :
        /\ engine' = remove_document(engine, key)
        /\ last' = [NoCall EXCEPT !.op = "remove", !.key = key]
        /\ removed_keys' = removed_keys \cup {key}
        /\ live' = [live EXCEPT ![key] = NoItem]
        /\ UNCHANGED <<ever_docs, ever_keys>>
        /\ UNCHANGED <<business_vars, call>>

EngineQueryOf(texts) ==
    \E text \in texts, boost \in BoostSets :
        /\ last' = [NoCall EXCEPT !.op = "query", !.text = text, !.boost = boost,
                                  !.result = query(engine, text, boost)]
        /\ UNCHANGED <<engine, ever_docs, ever_keys, removed_keys, live>>
        /\ UNCHANGED <<business_vars, call>>

EngineQuery == EngineQueryOf(Queries)

EngineQueryAutocorrectOf(texts, limits) ==
    \E text \in texts, boost \in BoostSets, limit \in limits,
       order \in Orders(engine.word_occurences) :
        /\ last' = [NoCall EXCEPT !.op = "query_with_autocorrect", !.text = text,
                                  !.boost = boost, !.limit = limit,
                                  !.result = query_with_autocorrect(engine, order, text, boost, limit)]
        /\ UNCHANGED <<engine, ever_docs, ever_keys, removed_keys, live>>
        /\ UNCHANGED <<business_vars, call>>

EngineQueryAutocorrect == EngineQueryAutocorrectOf(Queries, LimitOptions)

EngineNext == EngineIndex \/ EngineRemove \/ EngineQuery \/ EngineQueryAutocorrect

SpecEngine == Init /\ [][EngineNext]_vars

(* ----------------- the IndexEngine with misspelled queries -------------- *)

\* Documents: {name "hello"} and {name "world", description "help"}.
FuzzyItems ==
    { [name |-> <<"h", "e", "l", "l", "o">>, description |-> None],
      [name |-> <<"w", "o", "r", "l", "d">>, description |-> Some(<<"h", "e", "l", "p">>)] }

\* Query texts: "helo", "hel", "wrld helo".
FuzzyQueries ==
    { <<"h", "e", "l", "o">>, <<"h", "e", "l">>,
      <<"w", "r", "l", "d", " ", "h", "e", "l", "o">> }

FuzzyLimits == { WordLengthBased }

FuzzyIndex == EngineIndexOf(FuzzyItems)

FuzzyQuery == EngineQueryOf(FuzzyQueries)

FuzzyQueryAutocorrect == EngineQueryAutocorrectOf(FuzzyQueries, FuzzyLimits)

FuzzyNext == FuzzyIndex \/ EngineRemove \/ FuzzyQuery \/ FuzzyQueryAutocorrect

SpecFuzzy == Init /\ [][FuzzyNext]_vars

(* ------------------- the request handlers (BusinessRules) --------------- *)

Set(p, r) == proc' = [proc EXCEPT ![p] = r]

RowIds == { r[1] : r \in rows }

\* Every posting a complete document has.
DocPostings(key, d) == UNION { FieldPostings(key, i, d) : i \in 1..Len(Fields) }

\* Keys whose postings are not those of any complete document.
PartialKeys(post) ==
    { k \in KeysOf(post) : \A d \in Items : PostingsOf(post, k) # DocPostings(k, d) }

\* An error propagated with `?`: the handler returns, which drops its
\* transaction (a rollback unless it was committed) and its lock guard.
Failed(r, what) ==
    [r EXCEPT !.pc = "done", !.outcome = what, !.item = NoItem, !.id = 0, !.field = 0,
              !.tx = IF @ = "open" THEN "rolled_back" ELSE @]

Fail(p, what) ==
    /\ Set(p, Failed(proc[p], what))
    /\ db_writer' = IF db_writer = p THEN 0 ELSE db_writer
    /\ readers' = readers \ {p}
    /\ writers' = writers \ {p}
    /\ UNCHANGED queue
    /\ failed' = (failed \/ proc[p].op \in {"add", "delete"})
    /\ UNCHANGED <<rows, seq>>
    /\ UNCHANGED <<engine_vars, call>>

\* A request arrives at a handler that is free (its previous call returned).
StartOf(p, items, ids, texts) ==
    /\ proc[p].pc \in {"idle", "done"}
    /\ \/ \E item \in items :
            /\ seq < MaxId
            /\ Set(p, [Idle EXCEPT !.pc = "a_begin", !.op = "add", !.item = item])
       \/ \E id \in ids :
            Set(p, [Idle EXCEPT !.pc = "d_begin", !.op = "delete", !.id = id])
       \/ \E text \in texts :
            Set(p, [Idle EXCEPT !.pc = "f_lock", !.op = "find", !.text = text])
    /\ UNCHANGED <<store_vars, lock_vars>>
    /\ UNCHANGED <<engine_vars, call, failed>>

Start(p) == StartOf(p, Items, Ids, Queries)

(* add_item *)

\* self.conn.begin()
add_item_begin(p) ==
    /\ proc[p].pc = "a_begin"
    /\ \/ /\ Set(p, [proc[p] EXCEPT !.pc = "a_insert", !.tx = "open"])
          /\ UNCHANGED <<store_vars, lock_vars>>
          /\ UNCHANGED <<engine_vars, call, failed>>
       \/ Fail(p, "StoreError")

\* INSERT INTO items and SELECT last_insert_rowid(): the transaction takes
\* SQLite's write lock and the row gets the next id of the sequence.
add_item_insert(p) ==
    /\ proc[p].pc = "a_insert"
    /\ \/ /\ db_writer = 0
          /\ seq < MaxId
          /\ db_writer' = p
          /\ Set(p, [proc[p] EXCEPT !.pc = "a_file", !.id = seq + 1])
          /\ UNCHANGED <<rows, seq, lock_vars>>
          /\ UNCHANGED <<engine_vars, call, failed>>
       \/ Fail(p, "StoreError")

\* self.item_files.store(&item)
add_item_store_file(p) ==
    /\ proc[p].pc = "a_file"
    /\ \/ /\ Set(p, [proc[p] EXCEPT !.pc = "a_commit"])
          /\ UNCHANGED <<store_vars, lock_vars>>
          /\ UNCHANGED <<engine_vars, call, failed>>
       \/ Fail(p, "StoreError")

\* Variant of add_item_commit_error that ignores the failed commit and goes on.
add_item_commit_error_ignored(r) ==
    [r EXCEPT !.pc = "a_lock", !.tx = "rolled_back"]

\* tx.commit().await? failed: add_item returns the error.
add_item_commit_error(r) == Failed(r, "StoreError")

\* tx.commit()
add_item_commit(p) ==
    /\ proc[p].pc = "a_commit"
    /\ \/ /\ rows' = rows \cup {<<proc[p].id, proc[p].item>>}
          /\ seq' = proc[p].id
          /\ db_writer' = 0
          /\ Set(p, [proc[p] EXCEPT !.pc = "a_lock", !.tx = "committed"])
          /\ UNCHANGED lock_vars
          /\ UNCHANGED <<engine_vars, call, failed>>
       \/ /\ Set(p, add_item_commit_error(proc[p]))
          /\ db_writer' = 0
          /\ failed' = (failed \/ proc'[p].outcome # "none")
          /\ UNCHANGED <<rows, seq, lock_vars>>
          /\ UNCHANGED <<engine_vars, call>>

\* The lock serves requests in the order they were made: somebody is ahead of
\* a handler that waits when it is not the first in line, and of one that does
\* not wait yet when anybody waits.
Ahead(p) == IF p \in Range(queue) THEN Head(queue) # p ELSE queue # <<>>

\* The guard is granted: nobody is ahead and the lock is free for this mode.
Acquire(p, mode) ==
    /\ ~Ahead(p)
    /\ CanAcquire(mode, readers \ {p}, writers \ {p})
    /\ readers' = IF mode = "read" THEN readers \cup {p} ELSE readers
    /\ writers' = IF mode = "write" THEN writers \cup {p} ELSE writers
    /\ queue' = SelectSeq(queue, LAMBDA q : q # p)

\* The guard cannot be granted when it is asked for: the handler gets in line
\* and stays where it is.
Wait(p, mode) ==
    /\ p \notin Range(queue)
    /\ Ahead(p) \/ ~CanAcquire(mode, readers \ {p}, writers \ {p})
    /\ queue' = Append(queue, p)
    /\ UNCHANGED <<readers, writers, proc>>

\* The guard is dropped.
Release(p) ==
    /\ readers' = readers \ {p}
    /\ writers' = writers \ {p}
    /\ UNCHANGED queue

\* self.index.write().await
add_item_lock_index(p) ==
    /\ proc[p].pc = "a_lock"
    /\ \/ /\ Acquire(p, add_item_lock)
          /\ Set(p, [proc[p] EXCEPT !.pc = "a_index", !.field = 0])
       \/ Wait(p, add_item_lock)
    /\ UNCHANGED store_vars
    /\ UNCHANGED <<engine_vars, call, failed>>

\* index.insert_document(document): the vocabulary first, or an error before
\* anything is changed.
add_item_index_words(p) ==
    /\ proc[p].pc = "a_index"
    /\ proc[p].field = 0
    /\ \/ /\ engine' = index_words(engine, proc[p].item)
          /\ Set(p, [proc[p] EXCEPT !.field = 1])
          /\ UNCHANGED <<store_vars, lock_vars, history_vars, call, failed>>
       \/ Fail(p, "IndexError")

\* index.insert_document(document), the postings of one more field; after the
\* last field add_item returns Ok(item) and its write guard is dropped.
add_item_index_field(p) ==
    /\ proc[p].pc = "a_index"
    /\ proc[p].field \in 1..Len(Fields)
    /\ engine' = index_field(engine, proc[p].id, proc[p].field, proc[p].item)
    /\ IF proc[p].field < Len(Fields)
       THEN /\ Set(p, [proc[p] EXCEPT !.field = @ + 1])
            /\ UNCHANGED lock_vars
       ELSE /\ Set(p, [proc[p] EXCEPT !.field = 0, !.pc = "done", !.outcome = "Ok",
                                      !.item = NoItem, !.id = 0])
            /\ Release(p)
    /\ UNCHANGED <<store_vars, history_vars, call, failed>>

(* delete_item *)

\* self.conn.begin()
delete_item_begin(p) ==
    /\ proc[p].pc = "d_begin"
    /\ \/ /\ Set(p, [proc[p] EXCEPT !.pc = "d_select", !.tx = "open"])
          /\ UNCHANGED <<store_vars, lock_vars>>
          /\ UNCHANGED <<engine_vars, call, failed>>
       \/ Fail(p, "StoreError")

\* SELECT * from items WHERE id = ?, fetch_one: an error when there is no row.
delete_item_select(p) ==
    /\ proc[p].pc = "d_select"
    /\ \/ \E r \in rows :
            /\ r[1] = proc[p].id
            /\ Set(p, [proc[p] EXCEPT !.pc = "d_delete"])
            /\ UNCHANGED <<store_vars, lock_vars>>
            /\ UNCHANGED <<engine_vars, call, failed>>
       \/ Fail(p, "StoreError")

\* DELETE FROM items WHERE id = ?, inside the transaction.
delete_item_delete(p) ==
    /\ proc[p].pc = "d_delete"
    /\ \/ /\ db_writer = 0
          /\ db_writer' = p
          /\ Set(p, [proc[p] EXCEPT !.pc = "d_lock"])
          /\ UNCHANGED <<rows, seq, lock_vars>>
          /\ UNCHANGED <<engine_vars, call, failed>>
       \/ Fail(p, "StoreError")

\* self.index.write().await
delete_item_lock_index(p) ==
    /\ proc[p].pc = "d_lock"
    /\ \/ /\ Acquire(p, delete_item_lock)
          /\ Set(p, [proc[p] EXCEPT !.pc = "d_remove", !.field = 1])
       \/ Wait(p, delete_item_lock)
    /\ UNCHANGED store_vars
    /\ UNCHANGED <<engine_vars, call, failed>>

\* index.remove_document(id), the postings of one more field, or an error
\* before anything is changed; after the last field the block ends and the
\* write guard is dropped.
delete_item_remove(p) ==
    /\ proc[p].pc = "d_remove"
    /\ \/ /\ engine' = remove_field(engine, proc[p].id, proc[p].field)
          /\ IF proc[p].field < Len(Fields)
             THEN /\ Set(p, [proc[p] EXCEPT !.field = @ + 1])
                  /\ UNCHANGED lock_vars
             ELSE /\ Set(p, [proc[p] EXCEPT !.field = @ + 1, !.pc = "d_commit"])
                  /\ Release(p)
          /\ UNCHANGED <<store_vars, history_vars, call, failed>>
       \/ /\ proc[p].field = 1
          /\ Fail(p, "IndexError")

\* tx.commit()
delete_item_commit(p) ==
    /\ proc[p].pc = "d_commit"
    /\ \/ /\ rows' = { r \in rows : r[1] # proc[p].id }
          /\ db_writer' = 0
          /\ Set(p, [proc[p] EXCEPT !.pc = "done", !.tx = "committed", !.outcome = "Ok",
                                    !.id = 0, !.field = 0])
          /\ UNCHANGED <<seq, lock_vars>>
          /\ UNCHANGED <<engine_vars, call, failed>>
       \/ Fail(p, "StoreError")

(* find_items *)

\* self.index.read().await
find_items_lock_index(p) ==
    /\ proc[p].pc = "f_lock"
    /\ \/ /\ Acquire(p, find_items_lock)
          /\ Set(p, [proc[p] EXCEPT !.pc = "f_query"])
       \/ Wait(p, find_items_lock)
    /\ UNCHANGED store_vars
    /\ UNCHANGED <<engine_vars, call, failed>>

\* Variant of find_items_no_matches_guard in which the read guard outlives the
\* return.
find_items_no_matches_guard_kept(p) == UNCHANGED lock_vars

\* return Err(CustError::NoMatches): the read guard goes out of scope.
find_items_no_matches_guard(p) == Release(p)

\* index.query(..).collect(), the NoMatches return on an empty result, and the
\* sort of the result by score. The result list comes in any order.
find_items_query(p) ==
    /\ proc[p].pc = "f_query"
    /\ \/ /\ \E order \in Orders(query(engine, proc[p].text, FindBoost)) :
                LET result == SortByScore(order)
                    seen == PartialKeys(engine.bm25_search)
                IN  IF result = <<>>
                    THEN /\ Set(p, [proc[p] EXCEPT !.pc = "done", !.outcome = "NoMatches",
                                                   !.partial = seen])
                         /\ find_items_no_matches_guard(p)
                    ELSE /\ Set(p, [proc[p] EXCEPT !.pc = "f_fetch", !.result = result,
                                                   !.partial = seen])
                         /\ UNCHANGED lock_vars
          /\ UNCHANGED store_vars
          /\ UNCHANGED <<engine_vars, call, failed>>
       \/ Fail(p, "IndexError")

\* SELECT * FROM items WHERE id IN (..), fetch_all, and the scoring, filtering
\* and ordering of the fetched rows. The rows come in any order.
find_items_fetch(p) ==
    /\ proc[p].pc = "f_fetch"
    /\ \/ /\ \E fetched \in Orders(find_items_select(proc[p].result, RowIds)) :
                Set(p, [proc[p] EXCEPT !.pc = "f_files",
                                       !.output = find_items_output(proc[p].result, fetched)])
          /\ UNCHANGED <<store_vars, lock_vars>>
          /\ UNCHANGED <<engine_vars, call, failed>>
       \/ Fail(p, "StoreError")

\* self.item_files.read(item) for every record (a failure is only logged), then
\* Ok(records): find_items returns and its read guard is dropped.
find_items_read_files(p) ==
    /\ proc[p].pc = "f_files"
    /\ Set(p, [proc[p] EXCEPT !.pc = "done", !.outcome = find_items_return(proc[p].output)])
    /\ Release(p)
    /\ UNCHANGED store_vars
    /\ UNCHANGED <<engine_vars, call, failed>>

Next ==
    \E p \in Procs :
        \/ Start(p)
        \/ add_item_begin(p)
        \/ add_item_insert(p)
        \/ add_item_store_file(p)
        \/ add_item_commit(p)
        \/ add_item_lock_index(p)
        \/ add_item_index_words(p)
        \/ add_item_index_field(p)
        \/ delete_item_begin(p)
        \/ delete_item_select(p)
        \/ delete_item_delete(p)
        \/ delete_item_lock_index(p)
        \/ delete_item_remove(p)
        \/ delete_item_commit(p)
        \/ find_items_lock_index(p)
        \/ find_items_query(p)
        \/ find_items_fetch(p)
        \/ find_items_read_files(p)

Spec == Init /\ [][Next]_vars

(* ------------------- the handlers under a fair scheduler ---------------- *)

\* The requests that arrive: one item to add, one id to delete and one query,
\* which matches nothing before the item is indexed and the item afterwards.
LiveItems == { [name |-> <<"a">>, description |-> None] }

LiveIds == { 1 }

LiveQueries == { <<"a">> }

LiveStart(p) == StartOf(p, LiveItems, LiveIds, LiveQueries)

\* A step of a handler that serves a request.
Step(p) ==
    \/ add_item_begin(p)
    \/ add_item_insert(p)
    \/ add_item_store_file(p)
    \/ add_item_commit(p)
    \/ add_item_lock_index(p)
    \/ add_item_index_words(p)
    \/ add_item_index_field(p)
    \/ delete_item_begin(p)
    \/ delete_item_select(p)
    \/ delete_item_delete(p)
    \/ delete_item_lock_index(p)
    \/ delete_item_remove(p)
    \/ delete_item_commit(p)
    \/ find_items_lock_index(p)
    \/ find_items_query(p)
    \/ find_items_fetch(p)
    \/ find_items_read_files(p)

LiveNext == \E p \in Procs : LiveStart(p) \/ Step(p)

\* The runtime polls every task that can go on, and every store operation
\* returns: a handler that can take a step takes one in the end.
Fairness == \A p \in Procs : WF_vars(Step(p))

SpecLive == Init /\ [][LiveNext]_vars /\ Fairness

(* ------------------------ the functions on their own -------------------- *)

Alphabet == { "a", "B", " " }

\* Texts handed to the tokenizer: every text of at most MaxTextLen characters.
Texts == UNION { [1..n -> Alphabet] : n \in 0..MaxTextLen }

\* A word of n characters.
Word(n) == [i \in 1..n |-> "a"]

\* Words a vocabulary is made of.
FunctionWords ==
    { <<"h", "e", "l">>, <<"h", "e", "l", "p">>, <<"h", "e", "l", "l", "o">>,
      <<"w", "o", "r", "l", "d">> }

\* A vocabulary, in an order in which the HashSet may be iterated.
VocabularyOrders == UNION { Orders(v) : v \in SUBSET FunctionWords }

\* Query tokens.
FunctionTokens ==
    { <<>>, <<"h", "e", "l">>, <<"h", "e", "l", "o">>, <<"w", "r", "l", "d">> }

\* Query texts: "", "helo", "hel helo", "wrld hel".
FunctionQueries ==
    { <<>>, <<"h", "e", "l", "o">>,
      <<"h", "e", "l", " ", "h", "e", "l", "o">>,
      <<"w", "r", "l", "d", " ", "h", "e", "l">> }

FunctionLimits == { LimitNone, WordLengthBased, Limit(0), Limit(2) }

FunctionOptions == { None, Some(0), Some(1), Some(2) }

\* Asset strings: "", "QQ==", "QUI=", "QUJD", "YXNkZg==", "ZmRhcw==" decode;
\* "QR==" (trailing bits set), "QQ=" (length), "Q?==" (character) and "=QQ="
\* (padding) do not.
AssetStrings ==
    { <<>>, <<"Q", "Q", "=", "=">>, <<"Q", "U", "I", "=">>,
      <<"Q", "U", "J", "D">>,
      <<"Y", "X", "N", "k", "Z", "g", "=", "=">>,
      <<"Z", "m", "R", "h", "c", "w", "=", "=">>,
      <<"Q", "R", "=", "=">>, <<"Q", "Q", "=">>, <<"Q", "?", "=", "=">>,
      <<"=", "Q", "Q", "=">> }

AssetFields == { None } \cup { Some(a) : a \in AssetStrings }

\* The asset fields of an Item.
AssetItems == [thumbnail : AssetFields, fullsize : AssetFields]

\* A function about to be applied to its arguments.
Pending(fn, arg) == [fn |-> fn, arg |-> arg, ret |-> <<>>, done |-> FALSE]

InitFunctions ==
    /\ engine = NewEngine
    /\ last = NoCall
    /\ ever_docs = {}
    /\ ever_keys = {}
    /\ removed_keys = {}
    /\ live = [k \in Ids |-> NoItem]
    /\ rows = {}
    /\ seq = 0
    /\ db_writer = 0
    /\ readers = {}
    /\ writers = {}
    /\ queue = <<>>
    /\ proc = [p \in Procs |-> Idle]
    /\ failed = FALSE
    /\ \/ \E n \in 0..MaxWordLength :
            call = Pending("levenshtein_distance_rule", <<n>>)
       \/ \E limit \in FunctionLimits, n \in 0..MaxWordLength :
            call = Pending("into_option", <<limit, Word(n)>>)
       \/ \E s \in Texts :
            call = Pending("tokenizer", <<s>>)
       \/ \E order \in VocabularyOrders, token \in FunctionTokens, limit \in FunctionOptions :
            call = Pending("find_best_matching_autocorrect_token", <<order, token, limit>>)
       \/ \E order \in VocabularyOrders, text \in FunctionQueries, limit \in FunctionLimits :
            call = Pending("find_best_matching_autocorrect", <<order, text, limit>>)
       \/ \E order \in VocabularyOrders, text \in FunctionQueries, limit \in FunctionLimits :
            call = Pending("expanded_query", <<order, text, limit>>)
       \/ \E item \in AssetItems :
            call = Pending("as_bytes", <<item>>)

Returned(v) ==
    /\ ~call.done
    /\ call' = [call EXCEPT !.ret = v, !.done = TRUE]
    /\ UNCHANGED <<engine_vars, business_vars>>

ApplyRule ==
    /\ call.fn = "levenshtein_distance_rule"
    /\ Returned(levenshtein_distance_rule(call.arg[1]))

ApplyIntoOption ==
    /\ call.fn = "into_option"
    /\ Returned(into_option(call.arg[1], call.arg[2]))

ApplyTokenizer ==
    /\ call.fn = "tokenizer"
    /\ Returned(tokenizer(call.arg[1]))

ApplyAutocorrectToken ==
    /\ call.fn = "find_best_matching_autocorrect_token"
    /\ Returned(find_best_matching_autocorrect_token(call.arg[1], call.arg[2], call.arg[3]))

ApplyAutocorrect ==
    /\ call.fn = "find_best_matching_autocorrect"
    /\ Returned(find_best_matching_autocorrect(call.arg[1], call.arg[2], call.arg[3]))

ApplyExpandedQuery ==
    /\ call.fn = "expanded_query"
    /\ Returned(expanded_query(call.arg[1], call.arg[2], call.arg[3]))

ApplyAsBytes ==
    /\ call.fn = "as_bytes"
    /\ Returned(as_bytes(call.arg[1]))

\* The bytes as_bytes returned are read back into a copy of the item whose
\* thumbnail and fullsize were set to None.
ApplyChangeFromBytes ==
    /\ call.fn = "as_bytes"
    /\ call.done
    /\ call.ret.ok
    /\ LET item2 == [call.arg[1] EXCEPT !.thumbnail = None, !.fullsize = None]
       IN  call' = [fn |-> "change_from_bytes",
                    arg |-> <<call.arg[1], item2, call.ret.val>>,
                    ret |-> change_from_bytes(item2, call.ret.val),
                    done |-> TRUE]
    /\ UNCHANGED <<engine_vars, business_vars>>

FunctionsNext ==
    \/ ApplyRule
    \/ ApplyIntoOption
    \/ ApplyTokenizer
    \/ ApplyAutocorrectToken
    \/ ApplyAutocorrect
    \/ ApplyExpandedQuery
    \/ ApplyAsBytes
    \/ ApplyChangeFromBytes

SpecFunctions == InitFunctions /\ [][FunctionsNext]_vars

(* ------------------------------ claims: engine -------------------------- *)

ResultKeys(result) == { r.key : r \in result }

LiveTokens == { x[1] : x \in engine.bm25_search }

\* C6: after remove(id), and until id is passed to index again, no query
\* returns id: neither the latest call's result, nor any exact query, nor any
\* autocorrect-expanded query under any policy and vocabulary iteration order.
C6_RemovedNeverReturned ==
    /\ ResultKeys(last.result) \cap removed_keys = {}
    /\ \A text \in Queries, boost \in BoostSets :
        /\ ResultKeys(query(engine, text, boost)) \cap removed_keys = {}
        /\ \A limit \in LimitOptions, order \in Orders(engine.word_occurences) :
            ResultKeys(query_with_autocorrect(engine, order, text, boost, limit))
                \cap removed_keys = {}

\* An indexed document was removed, one of its tokens is left in the vocabulary
\* with no live posting, and an autocorrect query whose expansion contains that
\* token has just returned other documents.
C6_Witness ==
    /\ last.op = "query_with_autocorrect"
    /\ last.result # {}
    /\ removed_keys \cap ever_keys # {}
    /\ \E t \in engine.word_occurences \ LiveTokens, order \in Orders(engine.word_occurences) :
        t \in Range(find_best_matching_autocorrect(order, last.text, last.limit))

DocTokens(d) ==
    Range(tokenizer(d.name))
        \cup (IF d.description.some THEN Range(tokenizer(d.description.val)) ELSE {})

\* C7: the vocabulary is the set of all distinct tokens of every document ever
\* passed to index, documents removed since included.
C7_VocabularyIsEveryTokenEver ==
    engine.word_occurences = UNION { DocTokens(d) : d \in ever_docs }

\* Every indexed document has been removed and the vocabulary still holds tokens.
C7_Witness ==
    /\ last.op = "remove"
    /\ ever_keys # {}
    /\ ever_keys \subseteq removed_keys
    /\ engine.bm25_search = {}
    /\ engine.word_occurences # {}

\* C8: remove_document of a key that was never indexed completes and leaves
\* the postings and the vocabulary as they were before the call.
C8_RemoveUnknownIsNoOp ==
    [][(last'.op = "remove" /\ last'.key \notin ever_keys) => engine' = engine]_vars

\* remove_document has just returned for a never-indexed key while other
\* documents are indexed.
C8_Witness ==
    /\ last.op = "remove"
    /\ last.key \notin ever_keys
    /\ engine.bm25_search # {}

\* C21: queries are deterministic. The index is a function of the sequence
\* of index and remove_document calls it received; on it, the result of an
\* autocorrect query (the ids and the score of each) is, for the same text,
\* boosts and policy, the same in every iteration order of the vocabulary set
\* (the query is made in every state of the index, with every text, boosts,
\* policy and iteration order).
C21_ResultIndependentOfVocabularyOrder ==
    last.op = "query_with_autocorrect" =>
        \A order \in Orders(engine.word_occurences) :
            query_with_autocorrect(engine, order, last.text, last.boost, last.limit)
                = last.result

\* An autocorrect query has returned documents on an index whose vocabulary
\* has two iteration orders that give different expanded query texts.
C21_Witness ==
    /\ last.op = "query_with_autocorrect"
    /\ last.result # {}
    /\ \E o1, o2 \in Orders(engine.word_occurences) :
          expanded_query(o1, last.text, last.limit) # expanded_query(o2, last.text, last.limit)

\* C24: on the same index, for the same text and boosts, under every policy
\* and iteration order, query_with_autocorrect returns every document that
\* query returns (the call is made in every state of the index, with every
\* text, boosts, policy and iteration order).
C24_AutocorrectReturnsSuperset ==
    last.op = "query_with_autocorrect" =>
        ResultKeys(query(engine, last.text, last.boost)) \subseteq ResultKeys(last.result)

\* An autocorrect query has returned the documents the query of the same
\* text returns, and more.
C24_Witness ==
    /\ last.op = "query_with_autocorrect"
    /\ ResultKeys(query(engine, last.text, last.boost)) # {}
    /\ ResultKeys(query(engine, last.text, last.boost)) \subseteq ResultKeys(last.result)
    /\ ResultKeys(query(engine, last.text, last.boost)) # ResultKeys(last.result)

(* ------------------------------ claims: handlers ------------------------ *)

Mutating(p) == proc[p].pc \in {"a_index", "d_remove"}

Searching(p) == proc[p].pc \in {"f_query", "f_fetch", "f_files"}

FinishedFind(p) == proc[p].op = "find" /\ proc[p].pc = "done"

\* C1: a search never observes a document with only part of its postings:
\* whatever find_items' query saw of the index, every key in it had the
\* postings of a whole document.
C1_SearchSeesWholeDocuments ==
    \A p \in Procs : proc[p].partial = {}

\* A search is waiting for the lock while an insert or remove is half done:
\* the index holds a document with only part of its postings.
C1_Witness ==
    \E p, q \in Procs :
        /\ proc[p].op = "find"
        /\ proc[p].pc = "f_lock"
        /\ Mutating(q)
        /\ PartialKeys(engine.bm25_search) # {}

\* C2: the index lock excludes: while an insert or remove is at work on the
\* index it holds the only guard (no search holds a read guard, no other
\* insert or remove a write guard), and every search at work holds a read guard.
C2_LockExclusion ==
    /\ Cardinality(writers) <= 1
    /\ writers # {} => readers = {}
    /\ \A p \in Procs : Mutating(p) => writers = {p} /\ readers = {}
    /\ \A p \in Procs : Searching(p) => p \in readers

\* An insert or remove holds the write guard while a search waits for the lock.
C2_Witness ==
    \E p, q \in Procs :
        /\ Mutating(p)
        /\ p \in writers
        /\ proc[q].pc = "f_lock"

\* Two searches hold the read guard at the same time.
C2_SharedReaders ==
    \E p, q \in Procs : p # q /\ Searching(p) /\ Searching(q)

\* C3, as claimed: whenever delete_item has removed the id from the index, its
\* delete of that id in the store is committed.
C3_IndexRemovalAfterStoreDelete ==
    \A p \in Procs :
        (proc[p].op = "delete" /\ proc[p].field > Len(Fields)) => proc[p].tx = "committed"

\* C4: every step of add_item that changes the index is taken after its store
\* transaction committed, and an add_item that returns a store error has not
\* changed the index.
C4_IndexInsertAfterStoreCommit ==
    [][\A p \in Procs :
          (proc[p].op = "add" /\ proc'[p] # proc[p]) =>
              /\ engine' # engine => proc[p].tx = "committed"
              /\ proc'[p].outcome = "StoreError" =>
                    /\ engine' = engine
                    /\ proc[p].field = 0
                    /\ proc'[p].tx # "committed"]_vars

\* add_item is inserting into the index and its row is committed in the store.
C4_Witness ==
    \E p \in Procs :
        /\ proc[p].op = "add"
        /\ proc[p].pc = "a_index"
        /\ proc[p].field >= 1
        /\ proc[p].tx = "committed"
        /\ proc[p].id \in RowIds

\* C5, as claimed: no handler holds a guard of the index lock while one of its
\* store operations is in progress.
C5_NoLockDuringStoreOperation ==
    \A p \in Procs :
        proc[p].pc \in {"a_begin", "a_insert", "a_file", "a_commit",
                        "d_begin", "d_select", "d_delete", "d_commit", "f_fetch"}
            => p \notin readers \cup writers

C10_NoMatchesIffEmptyResult ==
    \A p \in Procs :
        FinishedFind(p) =>
            /\ proc[p].outcome = "NoMatches"
                  <=> (proc[p].outcome # "IndexError" /\ proc[p].result = <<>>)
            /\ proc[p].result # <<>> => proc[p].outcome \in {"Ok", "StoreError"}

\* A search scored at least one id, none of them was in the store, and it
\* returned an empty record list.
C10_Witness ==
    \E p \in Procs :
        /\ FinishedFind(p)
        /\ proc[p].result # <<>>
        /\ proc[p].output = <<>>
        /\ proc[p].outcome = "Ok"

OutputOk(p) == FinishedFind(p) /\ proc[p].outcome = "Ok"

\* The score the scorer gave the document of a returned record.
ScoreOf(p, id) == find_score_for_item(id, proc[p].result).val

\* Where a document stands in the scorer's result, as find_items sorted it
\* (the sort is stable: equal scores keep the order the scorer gave them).
PlaceOf(p, id) == CHOOSE i \in 1..Len(proc[p].result) : proc[p].result[i].key = id

\* C11: the records search returns are in descending score order: a record
\* whose document has a strictly higher score than another's comes before it.
C11_DescendingScoreOrder ==
    \A p \in Procs :
        OutputOk(p) =>
            \A i, j \in 1..Len(proc[p].output) :
                ScoreOf(p, proc[p].output[i]) > ScoreOf(p, proc[p].output[j]) => i < j

\* A search returned two records whose documents have different scores.
C11_Witness ==
    \E p \in Procs :
        /\ OutputOk(p)
        /\ \E i, j \in 1..Len(proc[p].output) :
              ScoreOf(p, proc[p].output[i]) > ScoreOf(p, proc[p].output[j])

\* C12, as claimed: records whose documents have equal scores are returned in
\* the reverse of the order the scorer's result had them in.
C12_TieOrderIsReverseOfScorerOrder ==
    \A p \in Procs :
        OutputOk(p) =>
            \A i, j \in 1..Len(proc[p].output) :
                (i < j /\ ScoreOf(p, proc[p].output[i]) = ScoreOf(p, proc[p].output[j]))
                    => PlaceOf(p, proc[p].output[i]) > PlaceOf(p, proc[p].output[j])

\* C13: the records search returns are the store's rows for the scored ids:
\* at the fetch, every scored id that has a row is returned once, a scored id
\* without a row is left out, no other row is returned; and a search that got
\* past the fetch returns its records.
C13_OutputIsScoredStoreRecords ==
    [][\A p \in Procs :
          /\ (proc[p].pc = "f_fetch" /\ proc'[p].pc = "f_files") =>
                LET scored == { proc[p].result[i].key : i \in 1..Len(proc[p].result) }
                    out == proc'[p].output
                IN  /\ Range(out) = scored \cap RowIds
                    /\ Len(out) = Cardinality(scored \cap RowIds)
          /\ (proc[p].pc = "f_files" /\ proc'[p].pc = "done") =>
                /\ proc'[p].outcome = "Ok"
                /\ proc'[p].output = proc[p].output]_vars

\* A search scored two ids, one of them had no row in the store, and it
\* returned the record of the other.
C13_Witness ==
    \E p \in Procs :
        /\ OutputOk(p)
        /\ Len(proc[p].result) = 2
        /\ Len(proc[p].output) = 1

\* No call is in flight: every handler is free.
Quiescent == \A p \in Procs : proc[p].pc \in {"idle", "done"}

\* C23: index and store agree when nothing is in flight. Once every add_item
\* and delete_item call that was started has returned Ok and no call is in
\* flight, the ids that have postings in the index are the ids of the rows of
\* the store.
C23_QuiescentIndexEqualsStore ==
    (Quiescent /\ ~failed) => KeysOf(engine.bm25_search) = RowIds

\* A handler holds a guard of the index lock.
Holding(p) == p \in readers \cup writers

\* add_item or delete_item is at its call of write() and has no guard yet.
WaitingForWrite(p) == proc[p].pc \in {"a_lock", "d_lock"}

\* C25: the lock is always given back, and a waiting writer gets it. Under a
\* fair scheduler every handler that holds a guard of the index lock drops it
\* in the end, whichever way its call returns, and every add_item or
\* delete_item that waits for the write guard holds it in the end.
C25_GuardReleasedAndWriterServed ==
    /\ \A p \in Procs : Holding(p) ~> ~Holding(p)
    /\ \A p \in Procs : WaitingForWrite(p) ~> (p \in writers)

\* A delete_item waits in line for the write guard while a find_items that
\* found something holds a read guard.
C25_Witness ==
    \E p, q \in Procs :
        /\ proc[p].pc = "d_lock"
        /\ queue = <<p>>
        /\ q \in readers
        /\ proc[q].pc = "f_fetch"

(* ------------------------------ claims: functions ----------------------- *)

Applied(fn) == call.fn = fn /\ call.done

\* The edit-distance budget of the word lengths 0 to 10.
BudgetTable == <<0, 0, 0, 0, 1, 1, 2, 2, 3, 3, 3>>

\* The budget of a word of length L: 4 from length 11 on.
BudgetOf(L) == IF L >= 11 THEN 4 ELSE BudgetTable[L + 1]

\* The budget a policy with a numeric budget gives a token.
PolicyBudget(limit, token) ==
    IF limit.kind = "WordLengthBased" THEN BudgetOf(Len(token)) ELSE limit.n

\* The words of the vocabulary within the budget of the token.
WithinBudget(vocabulary, token, budget) ==
    { v \in vocabulary : levenshtein(token, v) <= budget }

RECURSIVE SumSeq(_)
SumSeq(ns) == IF ns = <<>> THEN 0 ELSE Head(ns) + SumSeq(Tail(ns))

\* The part of the list xs that belongs to the i-th query token when the
\* parts have the sizes given.
Group(xs, sizes, i) ==
    SubSeq(xs, SumSeq(SubSeq(sizes, 1, i - 1)) + 1, SumSeq(SubSeq(sizes, 1, i)))

\* xs is, for each token in turn, the words of sets[i] once each in any order
\* followed by the token.
IsGroupedBy(xs, tokens, sets) ==
    LET sizes == [i \in 1..Len(tokens) |-> Cardinality(sets[i]) + 1]
    IN  /\ Len(xs) = SumSeq(sizes)
        /\ \A i \in 1..Len(tokens) :
              LET g == Group(xs, sizes, i)
              IN  /\ g[Len(g)] = tokens[i]
                  /\ Range(SubSeq(g, 1, Len(g) - 1)) = sets[i]

\* C14: levenshtein_distance_rule gives the budget of the table to every
\* length (0 for up to 3, 1 for 4 and 5, 2 for 6 and 7, 3 for 8 to 10, 4
\* from 11 on), and the WordLengthBased policy gives each query token the
\* budget of the token's own length, in into_option and in the expansion.
C14_BudgetByWordLength ==
    /\ Applied("levenshtein_distance_rule") => call.ret = BudgetOf(call.arg[1])
    /\ (Applied("into_option") /\ call.arg[1] = WordLengthBased)
          => call.ret = Some(BudgetOf(Len(call.arg[2])))
    /\ (Applied("find_best_matching_autocorrect") /\ call.arg[3] = WordLengthBased)
          => LET tokens == tokenizer(call.arg[2])
             IN  IsGroupedBy(call.ret, tokens,
                    [i \in 1..Len(tokens) |->
                        WithinBudget(Range(call.arg[1]), tokens[i], BudgetOf(Len(tokens[i])))])

\* "hel helo" was expanded by word length over a vocabulary holding hel and
\* help: help, one edit from both tokens, was found for helo and not for hel.
C14_Witness ==
    /\ Applied("find_best_matching_autocorrect")
    /\ call.arg[3] = WordLengthBased
    /\ call.arg[2] = <<"h", "e", "l", " ", "h", "e", "l", "o">>
    /\ Range(call.arg[1]) = { <<"h", "e", "l">>, <<"h", "e", "l", "p">> }
    /\ Len(call.ret) = 5

\* The budget is a number: the policy is by word length or a fixed limit.
Numeric(limit) == limit.kind \in {"WordLengthBased", "Limit"}

\* C15: with a numeric budget the candidates of a query token are the
\* vocabulary words within the budget of the token, each once, and the token
\* itself: find_best_matching_autocorrect_token returns exactly the words
\* within the limit, and the expansion holds for each token those words
\* under the policy's budget, then the token.
C15_CandidatesAreWordsWithinBudget ==
    /\ (Applied("find_best_matching_autocorrect_token") /\ call.arg[3].some)
          => /\ Range(call.ret)
                    = WithinBudget(Range(call.arg[1]), call.arg[2], call.arg[3].val)
             /\ Len(call.ret) = Cardinality(Range(call.ret))
    /\ (Applied("find_best_matching_autocorrect") /\ Numeric(call.arg[3]))
          => LET tokens == tokenizer(call.arg[2])
             IN  IsGroupedBy(call.ret, tokens,
                    [i \in 1..Len(tokens) |->
                        WithinBudget(Range(call.arg[1]), tokens[i],
                                     PolicyBudget(call.arg[3], tokens[i]))])

\* helo was looked up with limit 1 in the whole vocabulary: hel, help and
\* hello, each one edit away, were found and world was not.
C15_Witness ==
    /\ Applied("find_best_matching_autocorrect_token")
    /\ call.arg[2] = <<"h", "e", "l", "o">>
    /\ call.arg[3] = Some(1)
    /\ Range(call.arg[1]) = FunctionWords
    /\ Range(call.ret) = FunctionWords \ { <<"w", "o", "r", "l", "d">> }

\* C16: without a numeric budget (LimitOption::None) the candidates of every
\* query token are the whole vocabulary, whatever the distance:
\* find_best_matching_autocorrect_token returns every word once, and the
\* expansion holds for each token the whole vocabulary, then the token.
C16_NoBudgetGivesWholeVocabulary ==
    /\ (Applied("find_best_matching_autocorrect_token") /\ ~call.arg[3].some)
          => /\ Range(call.ret) = Range(call.arg[1])
             /\ Len(call.ret) = Len(call.arg[1])
    /\ (Applied("find_best_matching_autocorrect") /\ call.arg[3] = LimitNone)
          => LET tokens == tokenizer(call.arg[2])
             IN  IsGroupedBy(call.ret, tokens,
                             [i \in 1..Len(tokens) |-> Range(call.arg[1])])

\* "wrld hel" was expanded without a budget over the whole vocabulary: each
\* token got all four words, hello (five edits from wrld) among them.
C16_Witness ==
    /\ Applied("find_best_matching_autocorrect")
    /\ call.arg[3] = LimitNone
    /\ call.arg[2] = <<"w", "r", "l", "d", " ", "h", "e", "l">>
    /\ Range(call.arg[1]) = FunctionWords
    /\ levenshtein(<<"w", "r", "l", "d">>, <<"h", "e", "l", "l", "o">>) > 2
    /\ Len(call.ret) = 10

\* The vocabulary words a policy makes candidates of a token.
CandidatesOf(vocabulary, token, limit) ==
    IF Numeric(limit) THEN WithinBudget(vocabulary, token, PolicyBudget(limit, token))
    ELSE vocabulary

\* C17: the expanded query text is the candidate groups joined by single
\* spaces in query-token order: its tokens are, for the first query token, its
\* candidates and the token, then the same for the second token, and so on;
\* so every token of the query is a token of the expanded text.
C17_ExpansionIsGroupsInTokenOrder ==
    Applied("expanded_query") =>
        LET tokens == tokenizer(call.arg[2])
            expanded == tokenizer(call.ret)
        IN  /\ IsGroupedBy(expanded, tokens,
                    [i \in 1..Len(tokens) |->
                        CandidatesOf(Range(call.arg[1]), tokens[i], call.arg[3])])
            /\ Range(tokens) \subseteq Range(expanded)

\* "wrld hel" was expanded with limit 2 over the whole vocabulary: world and
\* then wrld, which is no vocabulary word, come before hel's three candidates
\* and hel.
C17_Witness ==
    /\ Applied("expanded_query")
    /\ call.arg[2] = <<"w", "r", "l", "d", " ", "h", "e", "l">>
    /\ call.arg[3] = Limit(2)
    /\ Range(call.arg[1]) = FunctionWords
    /\ SubSeq(call.ret, 1, 11) = <<"w", "o", "r", "l", "d", " ", "w", "r", "l", "d", " ">>
    /\ Len(tokenizer(call.ret)) = 6

\* C20: tokenizer splits at every single space and nowhere else, in order:
\* there is one token more than there are spaces, no token holds a space, an
\* empty token stands for every place where two delimiters (or a delimiter
\* and an end of the text) are adjacent, and the tokens joined by single
\* spaces are the text itself, unchanged.
C20_TokenizerSplitsAtEverySpace ==
    Applied("tokenizer") =>
        LET s == call.arg[1]
            toks == call.ret
        IN  /\ Len(toks) = Count(" ", s) + 1
            /\ \A i \in 1..Len(toks) : " " \notin Range(toks[i])
            /\ Cardinality({ i \in 1..Len(toks) : toks[i] = <<>> })
                  = Cardinality({ i \in 0..Len(s) : /\ (i = 0 \/ s[i] = " ")
                                                    /\ (i = Len(s) \/ s[i + 1] = " ") })
            /\ join(toks) = s

\* "a  B" (two spaces) was split into a, one empty token and B.
C20_Witness ==
    /\ Applied("tokenizer")
    /\ call.arg[1] = <<"a", " ", " ", "B">>
    /\ call.ret = << <<"a">>, <<>>, <<"B">> >>

\* The asset strings that are base64: "", "QQ==", "QUI=", "QUJD", "YXNkZg==",
\* "ZmRhcw==", with the number of bytes each stands for.
ValidBase64 ==
    { <<<<>>, 0>>, <<<<"Q", "Q", "=", "=">>, 1>>, <<<<"Q", "U", "I", "=">>, 2>>,
      <<<<"Q", "U", "J", "D">>, 3>>,
      <<<<"Y", "X", "N", "k", "Z", "g", "=", "=">>, 4>>,
      <<<<"Z", "m", "R", "h", "c", "w", "=", "=">>, 4>> }

IsValidAsset(field) == field.some /\ \E v \in ValidBase64 : v[1] = field.val

ByteLen(field) == (CHOOSE v \in ValidBase64 : v[1] = field.val)[2]

\* C22: the asset serialization round-trips. For an item whose thumbnail and
\* fullsize are present and valid base64, as_bytes succeeds with two length
\* prefixes and the bytes of both; change_from_bytes of those bytes, on a copy
\* with both fields cleared, does not panic, restores both fields to the
\* original values and leaves no byte over.
C22_AssetRoundTrip ==
    /\ (Applied("as_bytes") /\ IsValidAsset(call.arg[1].thumbnail)
            /\ IsValidAsset(call.arg[1].fullsize))
          => /\ call.ret.ok
             /\ Len(call.ret.val) = 2 * UsizeBytes + ByteLen(call.arg[1].thumbnail)
                                        + ByteLen(call.arg[1].fullsize)
    /\ (Applied("change_from_bytes") /\ call.arg[1].thumbnail.some
            /\ call.arg[1].fullsize.some)
          => /\ ~call.ret.panic
             /\ call.ret.item.thumbnail = call.arg[1].thumbnail
             /\ call.ret.item.fullsize = call.arg[1].fullsize
             /\ call.ret.rest = <<>>

\* The item of the repository's test, thumbnail "YXNkZg==" and fullsize
\* "ZmRhcw==", was serialized to 24 bytes and read back.
C22_Witness ==
    /\ Applied("change_from_bytes")
    /\ call.arg[1].thumbnail = Some(<<"Y", "X", "N", "k", "Z", "g", "=", "=">>)
    /\ call.arg[1].fullsize = Some(<<"Z", "m", "R", "h", "c", "w", "=", "=">>)
    /\ call.arg[2].thumbnail = None
    /\ Len(call.arg[3]) = 24
    /\ SubSeq(call.arg[3], 9, 12) = <<97, 115, 100, 102>>
    /\ call.ret.item.thumbnail = call.arg[1].thumbnail

(* ------------------------------ claims: matching ------------------------ *)

\* The keys indexed and not removed since.
LiveKeys == { k \in Ids : live[k] # NoItem }

\* Some token of the text is within its word-length budget of a token of d.
FuzzyMatches(text, d) ==
    \E t \in Range(tokenizer(text)), v \in DocTokens(d) :
        levenshtein(t, v) <= BudgetOf(Len(t))

\* C18: a live document holding a token within the word-length budget of a
\* query token is returned by the query with autocorrect, whether or not it
\* holds the query token itself (the call is made in every state of the
\* index, with every text and in every iteration order of the vocabulary).
C18_FuzzyMatchIsReturned ==
    (last.op = "query_with_autocorrect" /\ last.limit = WordLengthBased) =>
        \A k \in LiveKeys :
            FuzzyMatches(last.text, live[k]) => k \in ResultKeys(last.result)

\* "helo" was searched by word length and the document holding only "hello"
\* was returned, which the query of "helo" as it is does not return.
C18_Witness ==
    /\ last.op = "query_with_autocorrect"
    /\ last.limit = WordLengthBased
    /\ last.text = <<"h", "e", "l", "o">>
    /\ \E k \in ResultKeys(last.result) :
          /\ DocTokens(live[k]) = { <<"h", "e", "l", "l", "o">> }
          /\ k \notin ResultKeys(query(engine, last.text, FindBoost))

\* The live documents that share a token with the text.
SharingToken(text) ==
    { k \in LiveKeys : DocTokens(live[k]) \cap Range(tokenizer(text)) # {} }

\* C19: query returns exactly the live documents that share a token with the
\* query text, each with a score above zero: the latest query did, and so
\* does every query on the index as it is.
C19_QueryReturnsDocumentsSharingToken ==
    /\ last.op = "query" =>
            /\ ResultKeys(last.result) = SharingToken(last.text)
            /\ \A r \in last.result : r.score > 0
    /\ \A text \in Queries, boost \in BoostSets :
            /\ ResultKeys(query(engine, text, boost)) = SharingToken(text)
            /\ Cardinality(query(engine, text, boost)) = Cardinality(SharingToken(text))

\* Two documents are live, "c b" was queried, and the result is the one whose
\* title is b; the other, which holds neither c nor b, is left out.
C19_Witness ==
    /\ last.op = "query"
    /\ last.text = <<"c", " ", "b">>
    /\ Cardinality(LiveKeys) = 2
    /\ \E k \in LiveKeys :
          /\ ResultKeys(last.result) = {k}
          /\ live[k].name = <<"b">>

====
